---- MODULE Spec2Model ----
(***************************************************************************)
(* Model of grading_crew.py: the rubric parser (_parse_rubric_text), the   *)
(* prompt builders and the batch orchestration of grade_reports / main.    *)
(* Texts are sequences of one-character strings; the two regular           *)
(* expressions of the parser are evaluated position by position, with the  *)
(* leftmost-match, lazy-quantifier and lookahead semantics of Python's re. *)
(***************************************************************************)
EXTENDS Integers, Sequences, FiniteSets, TLC

(* ------------------------------ bounds --------------------------------- *)
\* largest number of paragraphs of a rubric document that is enumerated
MaxParas == 4

(* --------------------------- character classes ------------------------- *)
\* \d of the regular expressions
IsDigit(c) == c \in {"0", "1", "2", "3", "4", "5", "6", "7", "8", "9"}

\* \s of the regular expressions, and the characters str.strip() removes
IsSpace(c) == c \in {" ", "\n", "\t", "\r"}

\* re.IGNORECASE compares letters case-insensitively
Lower(c) ==
    CASE c = "G" -> "g" [] c = "R" -> "r" [] c = "A" -> "a" [] c = "D" -> "d"
      [] c = "I" -> "i" [] c = "N" -> "n" [] c = "C" -> "c" [] c = "T" -> "t"
      [] c = "E" -> "e" [] c = "B" -> "b" [] c = "O" -> "o" [] c = "K" -> "k"
      [] OTHER -> c

\* the literal "Grading Criteria" of grading_criteria_pattern
GradingCriteriaLabel ==
    <<"G", "r", "a", "d", "i", "n", "g", " ",
      "C", "r", "i", "t", "e", "r", "i", "a">>

(* ----------------------------- text helpers ---------------------------- *)
\* t[i..j-1], the Python slice t[i:j] with 1-based i and exclusive j
Slice(t, i, j) == IF j <= i THEN <<>> ELSE SubSeq(t, i, j - 1)

RECURSIVE SkipDigits(_, _)
\* position after the longest run of digits starting at i (greedy \d+ / \d*)
SkipDigits(t, i) ==
    IF i <= Len(t) /\ IsDigit(t[i]) THEN SkipDigits(t, i + 1) ELSE i

RECURSIVE SkipSpaces(_, _)
\* position after the longest run of whitespace starting at i (greedy \s*)
SkipSpaces(t, i) ==
    IF i <= Len(t) /\ IsSpace(t[i]) THEN SkipSpaces(t, i + 1) ELSE i

RECURSIVE LStrip(_)
LStrip(t) == IF t # <<>> /\ IsSpace(Head(t)) THEN LStrip(Tail(t)) ELSE t

RECURSIVE RStrip(_)
RStrip(t) ==
    IF t # <<>> /\ IsSpace(t[Len(t)]) THEN RStrip(SubSeq(t, 1, Len(t) - 1)) ELSE t

\* str.strip()
Strip(t) == RStrip(LStrip(t))

DigitVal(c) ==
    CASE c = "0" -> 0 [] c = "1" -> 1 [] c = "2" -> 2 [] c = "3" -> 3
      [] c = "4" -> 4 [] c = "5" -> 5 [] c = "6" -> 6 [] c = "7" -> 7
      [] c = "8" -> 8 [] c = "9" -> 9

RECURSIVE ToInt(_)
\* int(s) for a string of decimal digits
ToInt(ds) ==
    IF ds = <<>> THEN 0
    ELSE 10 * ToInt(SubSeq(ds, 1, Len(ds) - 1)) + DigitVal(ds[Len(ds)])

\* float(s) for a string of decimal digits: the same number, as a float
ToFloat(ds) == ToInt(ds)

\* least element of a non-empty set of positions
MinOf(S) == CHOOSE j \in S : \A k \in S : j <= k

(* --------------------------- rubric documents -------------------------- *)
\* The paragraphs a rubric document is made of.  _extract_text_from_docx
\* joins the non-blank paragraphs of the document with newlines.
ParaLabel     == <<"G", "r", "a", "d", "i", "n", "g", " ",
                   "c", "r", "i", "t", "e", "r", "i", "a">>
ParaIntro     == <<"1", ".", " ", "A", " ", "(", "1", "0", "%", ")">>
ParaAnalysis  == <<"2", ".", " ", "B", " ", "(", "3", "0", "%", ")">>
ParaSpaced    == <<"3", ".", " ", "C", " ", "(", " ", "6", "0", " ", "%", ")">>
ParaMalformed == <<"2", ".", " ", "B", " ", "(", "x", "%", ")">>
ParaNoWeight  == <<"4", ".", " ", "D">>
ParaBody      == <<"o", "k">>

Paragraphs ==
    {ParaLabel, ParaIntro, ParaAnalysis, ParaSpaced, ParaMalformed,
     ParaNoWeight, ParaBody}

RECURSIVE JoinParas(_)
\* "\n".join(paragraphs)
JoinParas(ps) ==
    IF ps = <<>> THEN <<>>
    ELSE IF Len(ps) = 1 THEN ps[1]
    ELSE ps[1] \o <<"\n">> \o JoinParas(Tail(ps))

\* the documents of at most MaxParas paragraphs
Documents == UNION {[1..n -> Paragraphs] : n \in 0..MaxParas}

\* _extract_text_from_docx on a document: its paragraphs joined by newlines
ExtractText(doc) == JoinParas(doc)


(* ------------------------ the regular expressions ---------------------- *)
\* \(\d+%\) at position p: the position after the match, or 0
StrictWeightAt(t, p) ==
    IF p <= Len(t) /\ t[p] = "("
    THEN LET b == SkipDigits(t, p + 1)
         IN IF b > p + 1 /\ b + 1 <= Len(t) /\ t[b] = "%" /\ t[b + 1] = ")"
            THEN b + 2 ELSE 0
    ELSE 0

\* \(\s*(?P<weight>\d+)\s*%\) at position p: <<end, weight start, weight end>>
\* or <<0, 0, 0>>
WeightAt(t, p) ==
    IF p <= Len(t) /\ t[p] = "("
    THEN LET a == SkipSpaces(t, p + 1)
             b == SkipDigits(t, a)
             c == SkipSpaces(t, b)
         IN IF b > a /\ c + 1 <= Len(t) /\ t[c] = "%" /\ t[c + 1] = ")"
            THEN <<c + 2, a, b>> ELSE <<0, 0, 0>>
    ELSE <<0, 0, 0>>

\* the first alternative of the lookahead, \n\s*\d+\.\s.*?\(\d+%\), at k
HeadingAhead(t, k) ==
    /\ k <= Len(t)
    /\ t[k] = "\n"
    /\ LET a == SkipSpaces(t, k + 1)
           b == SkipDigits(t, a)
       IN /\ b > a
          /\ b + 1 <= Len(t)
          /\ t[b] = "."
          /\ IsSpace(t[b + 1])
          /\ \E p \in (b + 2)..Len(t) : StrictWeightAt(t, p) # 0

\* the second alternative, $ without re.MULTILINE: the end of the text, or
\* just before a newline that ends the text
EndAnchor(t, k) ==
    \/ k = Len(t) + 1
    \/ k = Len(t) /\ t[k] = "\n"

\* (?=\n\s*\d+\.\s.*?\(\d+%\)|$)
LookAhead(t, k) == HeadingAhead(t, k) \/ EndAnchor(t, k)

\* end of a lazy .*? that starts at position from and is followed by the
\* lookahead: the first position at which the lookahead holds
LazyEnd(t, from) == MinOf({k \in from..(Len(t) + 1) : LookAhead(t, k)})

\* the label matches at position i, letters compared case-insensitively
LabelAt(t, i) ==
    /\ i + Len(GradingCriteriaLabel) - 1 <= Len(t)
    /\ \A n \in 1..Len(GradingCriteriaLabel) :
          Lower(t[i + n - 1]) = Lower(GradingCriteriaLabel[n])

\* grading_criteria_pattern.search(text), group(1).strip(), or "" if no match
GradingCriteriaText(t) ==
    LET S == {i \in 1..Len(t) : LabelAt(t, i)}
    IN IF S = {} THEN <<>>
       ELSE LET i == MinOf(S)
            IN Strip(Slice(t, i, LazyEnd(t, i + Len(GradingCriteriaLabel))))

\* section_pattern matched at position i: the positions of its groups, or
\* ok = FALSE.  \d+ and \s* are greedy, the title and the body are lazy.
SectionMatchAt(t, i) ==
    LET b  == SkipDigits(t, i)
        a  == SkipSpaces(t, b + 1)
        W  == {j \in a..Len(t) : WeightAt(t, j)[1] # 0}
    IN IF b > i /\ b <= Len(t) /\ t[b] = "." /\ W # {}
       THEN LET j  == MinOf(W)
                w  == WeightAt(t, j)
                he == w[1]
            IN [ok |-> TRUE, start |-> i, numEnd |-> b, titleStart |-> a,
                wStart |-> w[2], wEnd |-> w[3], headerEnd |-> he,
                end |-> LazyEnd(t, he)]
       ELSE [ok |-> FALSE, start |-> i, numEnd |-> 0, titleStart |-> 0,
             wStart |-> 0, wEnd |-> 0, headerEnd |-> 0, end |-> 0]

\* the dictionary appended for one match (lines 89-102)
SectionOf(t, m) ==
    [section_number  |-> ToInt(Slice(t, m.start, m.numEnd)),
     section_heading |-> Strip(Slice(t, m.start, m.headerEnd)),
     title           |-> Strip(Slice(t, m.titleStart, m.headerEnd)),
     weight          |-> ToFloat(Strip(Slice(t, m.wStart, m.wEnd))),
     body_text       |-> Strip(Slice(t, m.headerEnd, m.end))]

RECURSIVE FindSections(_, _)
\* section_pattern.finditer(text) from position pos: the leftmost match, then
\* the search resumes where that match ended
FindSections(t, pos) ==
    LET S == {i \in pos..Len(t) : SectionMatchAt(t, i).ok}
    IN IF S = {} THEN <<>>
       ELSE LET m == SectionMatchAt(t, MinOf(S))
            IN <<SectionOf(t, m)>> \o FindSections(t, m.end)

\* _parse_rubric_text
ParseRubricText(t) ==
    [grading_criteria |-> GradingCriteriaText(t),
     sections         |-> FindSections(t, 1)]

(* ---------------------------- prompt builders -------------------------- *)
\* the section prompt of one section (lines 117-128): the variable parts of
\* the f-string; the instruction block is fixed text
SectionPrompt(section) ==
    [section_number  |-> section.section_number,
     section_heading |-> section.section_heading,
     body_text       |-> section.body_text]

\* a builder that prepends each prompt to the list instead of appending it
BuildSectionPromptsReversed(parsed) ==
    [i \in 1..Len(parsed.sections) |->
        SectionPrompt(parsed.sections[Len(parsed.sections) + 1 - i])]

\* _build_section_prompts: one prompt per section, in the order of the list
BuildSectionPrompts(parsed) ==
    [i \in 1..Len(parsed.sections) |-> SectionPrompt(parsed.sections[i])]

\* a loop that stops one element early
ZipLenShort(a, b) ==
    IF Len(a) = 0 \/ Len(b) = 0 THEN 0
    ELSE IF Len(a) <= Len(b) THEN Len(a) - 1 ELSE Len(b) - 1

\* the number of iterations of a loop over zip(a, b)
ZipLen(a, b) == IF Len(a) <= Len(b) THEN Len(a) ELSE Len(b)

\* _build_final_prompt: the preamble and one block per (section, evaluation)
\* of zip(sections, section_evaluations)
BuildFinalPrompt(parsed, evaluations) ==
    [grading_criteria |-> parsed.grading_criteria,
     sections_summary |->
        [i \in 1..ZipLen(parsed.sections, evaluations) |->
            [section_number |-> parsed.sections[i].section_number,
             weight         |-> parsed.sections[i].weight,
             title          |-> parsed.sections[i].title,
             evaluation     |-> evaluations[i]]]]

\* evaluate_section: the prompt sent for one section (lines 183-189)
EvaluationPrompt(section_prompt, report) ==
    [section_prompt |-> section_prompt, report_text |-> report]

\* section_evaluations.insert(0, eval_text)
PrependEvaluation(evaluations, eval_text) == <<eval_text>> \o evaluations

\* section_evaluations.append(eval_text) (line 229)
AppendEvaluation(evaluations, eval_text) == Append(evaluations, eval_text)

\* an output name that starts with the model, as in AI_Grader_Test.py
OutputFilenameWithModel(report, num, m) ==
    [prefix |-> <<"model", m>>, report |-> report, prompt |-> num]

\* output_filename (line 238): 'GRADED_<report>_Prompt_<prompt_num>.docx';
\* the model the grader runs with is not part of the name
OutputFilename(report, num, m) ==
    [prefix |-> "GRADED", report |-> report, prompt |-> num]

(* ------------------------------ constants ------------------------------ *)
\* the models main() runs, one batch run each (lines 249-253)
NumModels == 3
\* range(1, 7) of the prompt loop (line 208)
LastPromptNum == 6

\* bound: the number of folders of the base directory
NumFolders == 1
\* bound: prompt_<n>.docx files exist only for n up to this number
MaxPromptFile == 2

\* the texts the inference endpoint answers with
Responses == {"r1", "r2"}

\* the rubric documents found in the folders: a preamble without sections,
\* and a preamble with two sections that carry the same number
RubricDocs ==
    {<<ParaLabel>>,
     <<ParaLabel, ParaIntro, ParaBody, ParaIntro>>}

None == "none"
NoRubric == [grading_criteria |-> <<>>, sections |-> <<>>]
NoPrompt == [grading_criteria |-> <<>>, sections_summary |-> <<>>]

\* the report file of a folder, report_files[0], and its extracted text
ReportName(f) == <<"report", f>>
ReportText(f) == <<"text of report", f>>

(* -------------------------------- state -------------------------------- *)
VARIABLES
    pc,                  \* position in main / grade_reports
    model,               \* index of the model of the current batch run
    folder,              \* index of the folder of the outer loop
    prompt_num,          \* prompt_num of the inner loop
    report_text,         \* text of the folder's report
    rubric_text,         \* text of the rubric of the current pair
    parsed_rubric,       \* result of _parse_rubric_text
    section_prompts,     \* result of _build_section_prompts
    section_evaluations, \* evaluations collected so far
    k,                   \* index of the next section to evaluate
    final_prompt,        \* result of _build_final_prompt
    final_output,        \* response of the final call
    inflight,            \* the prompt the inference endpoint is working on, if any
    fs,                  \* the GRADED_ files written, with their text
    log,                 \* history: calls, returns, raises, saves of the pair
    outcome,             \* history: "none", "running", "ok", "failed"
    lastFinal            \* history: final response of each pair's last success

vars == <<pc, model, folder, prompt_num, report_text, rubric_text,
          parsed_rubric, section_prompts, section_evaluations, k,
          final_prompt, final_output, inflight, fs, log, outcome, lastFinal>>

pairLocals == <<parsed_rubric, section_prompts, section_evaluations, k,
                final_prompt, final_output, inflight>>

\* The locals of a pair are dead once its try statement is left: each is
\* assigned again before it is read.  The steps of the loops that follow a
\* pair forget them, and the history of the pair with them.
ForgetPair ==
    /\ rubric_text' = <<>>
    /\ parsed_rubric' = NoRubric
    /\ section_prompts' = <<>>
    /\ section_evaluations' = <<>>
    /\ k' = 1
    /\ final_prompt' = NoPrompt
    /\ final_output' = None
    /\ inflight' = <<>>
    /\ log' = <<>>
    /\ outcome' = "none"

Pairs == (1..NumFolders) \X (1..LastPromptNum)

Init ==
    /\ pc = "main"
    /\ model = 1
    /\ folder = 1
    /\ prompt_num = 1
    /\ report_text = None
    /\ rubric_text = <<>>
    /\ parsed_rubric = NoRubric
    /\ section_prompts = <<>>
    /\ section_evaluations = <<>>
    /\ k = 1
    /\ final_prompt = NoPrompt
    /\ final_output = None
    /\ inflight = <<>>
    /\ fs = {}
    /\ log = <<>>
    /\ outcome = "none"
    /\ lastFinal = [p \in Pairs |-> None]

(* ------------------------------- main ---------------------------------- *)
\* main, lines 255-265: construct the grader of the next model and start
\* its grade_reports
StartModel ==
    /\ pc = "main"
    /\ model <= NumModels
    /\ pc' = "folder"
    /\ folder' = 1
    /\ UNCHANGED <<model, prompt_num, report_text, rubric_text, pairLocals,
                   fs, log, outcome, lastFinal>>

\* grade_reports returns when the folders are exhausted; main goes on with
\* the next model (lines 192, 265-266)
FinishModel ==
    /\ pc = "folder"
    /\ folder > NumFolders
    /\ model' = model + 1
    /\ pc' = "main"
    /\ UNCHANGED <<folder, prompt_num, report_text, rubric_text, pairLocals,
                   fs, log, outcome, lastFinal>>

(* --------------------------- grade_reports ----------------------------- *)
\* lines 192-203: an entry that is not a directory, or has no report file,
\* is skipped
SkipFolder ==
    /\ pc = "folder"
    /\ folder <= NumFolders
    /\ folder' = folder + 1
    /\ UNCHANGED <<pc, model, prompt_num, report_text, rubric_text,
                   pairLocals, fs, log, outcome, lastFinal>>

\* lines 204-205: the report of the folder is read, outside any try
ExtractReport ==
    /\ pc = "folder"
    /\ folder <= NumFolders
    /\ report_text' = ReportText(folder)
    /\ prompt_num' = 1
    /\ pc' = "prompt"
    /\ UNCHANGED <<model, folder, rubric_text, pairLocals, fs, log, outcome,
                   lastFinal>>

\* line 205 raises: nothing catches it, grade_reports and main end
ExtractReportRaise ==
    /\ pc = "folder"
    /\ folder <= NumFolders
    /\ pc' = "aborted_report"
    /\ UNCHANGED <<model, folder, prompt_num, report_text, rubric_text,
                   pairLocals, fs, log, outcome, lastFinal>>

\* lines 208-214: no prompt_<n>.docx in the folder, continue
SkipPrompt ==
    /\ pc = "prompt"
    /\ prompt_num <= LastPromptNum
    /\ prompt_num' = prompt_num + 1
    /\ ForgetPair
    /\ UNCHANGED <<pc, model, folder, report_text, fs, lastFinal>>

\* the prompt loop is exhausted: next folder
NextFolder ==
    /\ pc = "prompt"
    /\ prompt_num > LastPromptNum
    /\ folder' = folder + 1
    /\ pc' = "folder"
    /\ ForgetPair
    /\ UNCHANGED <<model, prompt_num, report_text, fs, lastFinal>>

\* lines 215-216: the rubric of the pair is read, before the try is entered;
\* a new pair begins
ExtractRubric ==
    /\ pc = "prompt"
    /\ prompt_num <= LastPromptNum
    /\ prompt_num <= MaxPromptFile
    /\ \E doc \in RubricDocs : rubric_text' = ExtractText(doc)
    /\ pc' = "parse"
    /\ parsed_rubric' = NoRubric
    /\ section_prompts' = <<>>
    /\ section_evaluations' = <<>>
    /\ k' = 1
    /\ final_prompt' = NoPrompt
    /\ final_output' = None
    /\ inflight' = <<>>
    /\ log' = <<>>
    /\ outcome' = "running"
    /\ UNCHANGED <<model, folder, prompt_num, report_text, fs, lastFinal>>

\* line 216 raises: the try of line 218 is not entered yet, so nothing
\* catches it and grade_reports and main end
ExtractRubricRaise ==
    /\ pc = "prompt"
    /\ prompt_num <= LastPromptNum
    /\ prompt_num <= MaxPromptFile
    /\ pc' = "aborted_rubric"
    /\ UNCHANGED <<model, folder, prompt_num, report_text, rubric_text,
                   pairLocals, fs, log, outcome, lastFinal>>

\* line 220
Parse ==
    /\ pc = "parse"
    /\ parsed_rubric' = ParseRubricText(rubric_text)
    /\ pc' = "build"
    /\ UNCHANGED <<model, folder, prompt_num, report_text, rubric_text,
                   section_prompts, section_evaluations, k, final_prompt,
                   final_output, inflight, fs, log, outcome, lastFinal>>

\* lines 223, 226
BuildPrompts ==
    /\ pc = "build"
    /\ section_prompts' = BuildSectionPrompts(parsed_rubric)
    /\ section_evaluations' = <<>>
    /\ k' = 1
    /\ pc' = "sections"
    /\ UNCHANGED <<model, folder, prompt_num, report_text, rubric_text,
                   parsed_rubric, final_prompt, final_output, inflight, fs,
                   log, outcome, lastFinal>>

\* lines 227-228, 189: the call for the next section is issued
SectionCall ==
    /\ pc = "sections"
    /\ k <= ZipLen(section_prompts, parsed_rubric.sections)
    /\ inflight' = <<EvaluationPrompt(section_prompts[k], report_text)>>
    /\ log' = Append(log, [type |-> "call", kind |-> "section",
                           prompt |-> inflight'[1]])
    /\ pc' = "section_wait"
    /\ UNCHANGED <<model, folder, prompt_num, report_text, rubric_text,
                   parsed_rubric, section_prompts, section_evaluations, k,
                   final_prompt, final_output, fs, outcome, lastFinal>>

\* lines 228-229: the call returns and its text is collected
SectionReturn ==
    /\ pc = "section_wait"
    /\ \E r \in Responses :
          /\ section_evaluations' = AppendEvaluation(section_evaluations, r)
          /\ log' = Append(log, [type |-> "return", text |-> r])
    /\ inflight' = <<>>
    /\ k' = k + 1
    /\ pc' = "sections"
    /\ UNCHANGED <<model, folder, prompt_num, report_text, rubric_text,
                   parsed_rubric, section_prompts, final_prompt,
                   final_output, fs, outcome, lastFinal>>

\* a section loop that catches the failure itself, records a placeholder
\* and goes on with the next section
SectionRaiseSwallowed ==
    /\ pc = "section_wait"
    /\ inflight' = <<>>
    /\ log' = Append(log, [type |-> "raise"])
    /\ section_evaluations' = Append(section_evaluations, "error")
    /\ k' = k + 1
    /\ pc' = "sections"
    /\ UNCHANGED <<model, folder, prompt_num, report_text, rubric_text,
                   parsed_rubric, section_prompts, final_prompt,
                   final_output, fs, outcome, lastFinal>>

\* line 228 raises: control goes to the except clause of line 244
SectionRaise ==
    /\ pc = "section_wait"
    /\ inflight' = <<>>
    /\ log' = Append(log, [type |-> "raise"])
    /\ pc' = "except"
    /\ UNCHANGED <<model, folder, prompt_num, report_text, rubric_text,
                   parsed_rubric, section_prompts, section_evaluations, k,
                   final_prompt, final_output, fs, outcome, lastFinal>>

\* line 232, after the section loop has ended
FinalPrompt ==
    /\ pc = "sections"
    /\ k > ZipLen(section_prompts, parsed_rubric.sections)
    /\ final_prompt' = BuildFinalPrompt(parsed_rubric, section_evaluations)
    /\ pc' = "final_call"
    /\ UNCHANGED <<model, folder, prompt_num, report_text, rubric_text,
                   parsed_rubric, section_prompts, section_evaluations, k,
                   final_output, inflight, fs, log, outcome, lastFinal>>

\* line 235: the final call is issued
FinalCall ==
    /\ pc = "final_call"
    /\ inflight' = <<final_prompt>>
    /\ log' = Append(log, [type |-> "call", kind |-> "final",
                           prompt |-> final_prompt])
    /\ pc' = "final_wait"
    /\ UNCHANGED <<model, folder, prompt_num, report_text, rubric_text,
                   parsed_rubric, section_prompts, section_evaluations, k,
                   final_prompt, final_output, fs, outcome, lastFinal>>

\* line 235: the final call returns
FinalReturn ==
    /\ pc = "final_wait"
    /\ \E r \in Responses :
          /\ final_output' = r
          /\ log' = Append(log, [type |-> "return", text |-> r])
    /\ inflight' = <<>>
    /\ pc' = "save"
    /\ UNCHANGED <<model, folder, prompt_num, report_text, rubric_text,
                   parsed_rubric, section_prompts, section_evaluations, k,
                   final_prompt, fs, outcome, lastFinal>>

\* line 235 raises
FinalRaise ==
    /\ pc = "final_wait"
    /\ inflight' = <<>>
    /\ log' = Append(log, [type |-> "raise"])
    /\ pc' = "except"
    /\ UNCHANGED <<model, folder, prompt_num, report_text, rubric_text,
                   parsed_rubric, section_prompts, section_evaluations, k,
                   final_prompt, final_output, fs, outcome, lastFinal>>

\* lines 238-242: the document is written under the output name, replacing
\* a file of that name; the loop goes on with the next prompt number
Save ==
    /\ pc = "save"
    /\ LET name == OutputFilename(ReportName(folder), prompt_num, model)
       IN /\ fs' = {a \in fs : ~(a.folder = folder /\ a.name = name)}
                      \cup {[folder |-> folder, name |-> name,
                             text |-> final_output]}
          /\ log' = Append(log, [type |-> "save", name |-> name,
                                 text |-> final_output])
    /\ lastFinal' = [lastFinal EXCEPT ![<<folder, prompt_num>>] =
                        log[Len(log)].text]
    /\ outcome' = "ok"
    /\ prompt_num' = prompt_num + 1
    /\ pc' = "prompt"
    /\ UNCHANGED <<model, folder, report_text, rubric_text, pairLocals>>

\* line 242 raises: nothing is written
SaveRaise ==
    /\ pc = "save"
    /\ log' = Append(log, [type |-> "raise"])
    /\ pc' = "except"
    /\ UNCHANGED <<model, folder, prompt_num, report_text, rubric_text,
                   pairLocals, fs, outcome, lastFinal>>

\* lines 244-245: the error is printed and the loop goes on with the next
\* prompt number
HandleException ==
    /\ pc = "except"
    /\ outcome' = "failed"
    /\ prompt_num' = prompt_num + 1
    /\ pc' = "prompt"
    /\ UNCHANGED <<model, folder, report_text, rubric_text, pairLocals, fs,
                   log, lastFinal>>

Next ==
    \/ StartModel \/ FinishModel
    \/ SkipFolder \/ ExtractReport \/ ExtractReportRaise
    \/ SkipPrompt \/ NextFolder \/ ExtractRubric \/ ExtractRubricRaise
    \/ Parse \/ BuildPrompts
    \/ SectionCall \/ SectionReturn \/ SectionRaise
    \/ FinalPrompt \/ FinalCall \/ FinalReturn \/ FinalRaise
    \/ Save \/ SaveRaise \/ HandleException

Spec == Init /\ [][Next]_vars

(* ------------------- the parser on enumerated documents ---------------- *)
\* the state in which the rubric of the first pair has just been read, for
\* every document of at most MaxParas paragraphs
InitParse ==
    /\ pc = "parse"
    /\ model = 1
    /\ folder = 1
    /\ prompt_num = 1
    /\ report_text = ReportText(1)
    /\ rubric_text \in {ExtractText(doc) : doc \in Documents}
    /\ parsed_rubric = NoRubric
    /\ section_prompts = <<>>
    /\ section_evaluations = <<>>
    /\ k = 1
    /\ final_prompt = NoPrompt
    /\ final_output = None
    /\ inflight = <<>>
    /\ fs = {}
    /\ log = <<>>
    /\ outcome = "running"
    /\ lastFinal = [p \in Pairs |-> None]

NextParse == Parse

SpecParse == InitParse /\ [][NextParse]_vars

(* ======================= properties of the pipeline ==================== *)
IsCall(e, kind) == e.type = "call" /\ e.kind = kind

\* C1: a pair in which nothing fails makes one section-evaluation call per
\* parsed section, each followed by its return, then one final-evaluation
\* call and its return, then one save whose text is the response of the
\* final call; nothing else happens for the pair.
C1_ExactCallSequence ==
    outcome = "ok" =>
        LET n == Len(parsed_rubric.sections)
        IN /\ Len(log) = 2 * n + 3
           /\ \A i \in 1..n : /\ IsCall(log[2 * i - 1], "section")
                              /\ log[2 * i].type = "return"
           /\ IsCall(log[2 * n + 1], "final")
           /\ log[2 * n + 2].type = "return"
           /\ log[2 * n + 3].type = "save"
           /\ log[2 * n + 3].text = log[2 * n + 2].text
           /\ \E a \in fs : /\ a.folder = folder
                            /\ a.name = log[2 * n + 3].name
                            /\ a.text = log[2 * n + 2].text

\* a pair with two sections has been processed without a failure
C1_Witness ==
    /\ outcome = "ok"
    /\ Len(parsed_rubric.sections) = 2
    /\ Len(log) = 7

\* C2: once a call of the pair has raised, nothing more is done for the
\* pair: no further call, no retry, no save, and the files are left alone.
C2_RaiseEndsPair ==
    [][(log # <<>> /\ log[Len(log)].type = "raise") =>
          /\ fs' = fs
          /\ lastFinal' = lastFinal
          /\ log' = log \/ log' = <<>>
          /\ pc' \notin {"section_wait", "final_wait", "save"}]_vars

\* the call for the second section has raised and the pair has been abandoned
C2_Witness ==
    /\ outcome = "failed"
    /\ Len(log) = 4
    /\ IsCall(log[3], "section")
    /\ log[4].type = "raise"

\* C3: whatever step of a pair raises, reading its rubric included, the
\* exception is caught at the pair boundary and the batch goes on; the batch
\* is never ended by the failure of a pair.
C3_PairFailureNeverAbortsBatch == pc # "aborted_rubric"

\* C5: the section calls of a pair are made one at a time in parsed order:
\* the i-th call carries the prompt of the i-th section and the report, a
\* call is issued only after the previous one has returned, and the final
\* call comes after the returns of all section calls.
C5_SectionsInParsedOrder ==
    LET n == Len(parsed_rubric.sections)
    IN /\ \A i \in 1..Len(log) :
            /\ (log[i].type = "call" /\ i > 1) => log[i - 1].type = "return"
            /\ IsCall(log[i], "section") =>
                  /\ i % 2 = 1
                  /\ (i + 1) \div 2 <= n
                  /\ LET sec == parsed_rubric.sections[(i + 1) \div 2]
                         sp  == log[i].prompt.section_prompt
                     IN /\ sp.section_number = sec.section_number
                        /\ sp.section_heading = sec.section_heading
                        /\ sp.body_text = sec.body_text
                  /\ log[i].prompt.report_text = ReportText(folder)
            /\ IsCall(log[i], "final") => i = 2 * n + 1
       /\ (inflight # <<>>) => (log # <<>> /\ log[Len(log)].type = "call")

\* both calls of a rubric with two different sections have returned and the
\* final call is issued
C5_Witness ==
    /\ Len(log) = 5
    /\ IsCall(log[5], "final")
    /\ Len(parsed_rubric.sections) = 2
    /\ parsed_rubric.sections[1] # parsed_rubric.sections[2]

\* C9: when the final prompt is built there is one evaluation per parsed
\* section, the i-th being the response to the call of the i-th section, and
\* the final prompt pairs it with the number, weight and title of that section.
C9_EvaluationsAligned ==
    pc \in {"final_call", "final_wait", "save"} =>
        LET n == Len(parsed_rubric.sections)
        IN /\ Len(section_evaluations) = n
           /\ Len(final_prompt.sections_summary) = n
           /\ final_prompt.grading_criteria = parsed_rubric.grading_criteria
           /\ \A i \in 1..n :
                 LET b == final_prompt.sections_summary[i]
                     s == parsed_rubric.sections[i]
                 IN /\ section_evaluations[i] = log[2 * i].text
                    /\ b.evaluation = log[2 * i].text
                    /\ b.section_number = s.section_number
                    /\ b.weight = s.weight
                    /\ b.title = s.title

\* the final prompt of a rubric with a repeated section number is built from
\* two different evaluations
C9_Witness ==
    /\ pc = "final_call"
    /\ Len(parsed_rubric.sections) = 2
    /\ parsed_rubric.sections[1].section_number
          = parsed_rubric.sections[2].section_number
    /\ section_evaluations[1] # section_evaluations[2]

\* the GRADED_ files of a pair
ArtifactsOf(p) ==
    {a \in fs : a.folder = p[1] /\ a.name.report = ReportName(p[1])
                                /\ a.name.prompt = p[2]}

LineStart(t, i) == i = 1 \/ t[i - 1] = "\n"

RECURSIVE LineEnd(_, _)
\* the position after the last character of the line that contains i
LineEnd(t, i) == IF i <= Len(t) /\ t[i] # "\n" THEN LineEnd(t, i + 1) ELSE i

\* the parenthesised percentages of the line that starts at i
WeightsOfLine(t, i) ==
    {p \in i..(LineEnd(t, i) - 1) :
        WeightAt(t, p)[1] # 0 /\ WeightAt(t, p)[1] <= LineEnd(t, i)}

\* a line "<digits>.<whitespace><title>": a numbered heading line
NumberedLineAt(t, i) ==
    /\ i <= Len(t)
    /\ LineStart(t, i)
    /\ LET b == SkipDigits(t, i)
       IN b > i /\ b + 1 <= Len(t) /\ t[b] = "." /\ t[b + 1] \in {" ", "\t"}

\* a heading: start of line, digits, period, whitespace, title text and a
\* percentage in parentheses
HeadingLineAt(t, i) == NumberedLineAt(t, i) /\ WeightsOfLine(t, i) # {}

\* a numbered heading whose parenthesised percentage is not a number
MalformedHeadingAt(t, i) ==
    /\ NumberedLineAt(t, i)
    /\ WeightsOfLine(t, i) = {}
    /\ \E p \in i..(LineEnd(t, i) - 1) : \E q \in (p + 1)..(LineEnd(t, i) - 2) :
          t[p] = "(" /\ t[q] = "%" /\ t[q + 1] = ")"

HeadingStarts(t) == {i \in 1..Len(t) : HeadingLineAt(t, i)}

RECURSIVE Ascending(_)
\* the positions of a set in ascending order
Ascending(S) ==
    IF S = {} THEN <<>> ELSE <<MinOf(S)>> \o Ascending(S \ {MinOf(S)})

\* number and weight written in the heading line that starts at i
HeadingNumber(t, i) == ToInt(Slice(t, i, SkipDigits(t, i)))
HeadingWeight(t, i) ==
    LET w == WeightAt(t, MinOf(WeightsOfLine(t, i)))
    IN ToInt(Slice(t, w[2], w[3]))

\* C4: a rubric with a numbered heading whose percentage is not a number is
\* rejected as a whole: parse returns no document for it.
C4_MalformedWeightRejected ==
    ~(/\ pc = "build"
      /\ \E i \in 1..Len(rubric_text) : MalformedHeadingAt(rubric_text, i))

\* C6: the body of a parsed section contains no heading, and its heading is
\* one heading line that does not run on into a following heading line.
C6_BodyExcludesHeadings ==
    pc = "build" =>
        \A n \in 1..Len(parsed_rubric.sections) :
            LET s == parsed_rubric.sections[n]
            IN /\ HeadingStarts(s.body_text) = {}
               /\ HeadingStarts(s.section_heading) \subseteq {1}

\* C7: parse returns one section per heading line of the text, in text
\* order, each with the number and the weight written in its heading.
C7_OneSectionPerHeading ==
    pc = "build" =>
        LET hs == Ascending(HeadingStarts(rubric_text))
        IN /\ Len(parsed_rubric.sections) = Len(hs)
           /\ \A n \in 1..Len(hs) :
                 /\ parsed_rubric.sections[n].section_number
                       = HeadingNumber(rubric_text, hs[n])
                 /\ parsed_rubric.sections[n].weight
                       = HeadingWeight(rubric_text, hs[n])

\* C8: grading_criteria is empty when the text has no label; otherwise it
\* starts at the label, is not empty and contains no section heading.
C8_PreambleStopsAtHeading ==
    pc = "build" =>
        LET gc == parsed_rubric.grading_criteria
        IN IF \E i \in 1..Len(rubric_text) : LabelAt(rubric_text, i)
           THEN /\ gc # <<>>
                /\ LabelAt(gc, 1)
                /\ HeadingStarts(gc) = {}
           ELSE gc = <<>>

====
